---------------------------- MODULE Spec2Model ----------------------------
(***************************************************************************)
(* Business-Report: the asynchronous report lifecycle.                     *)
(*                                                                         *)
(* One Report document in the Mongo collection, and the handlers that read *)
(* and write it: the submission use case, the render worker, the ML        *)
(* analysis worker, the synchronous analyze-data use case, the download    *)
(* use case and the expiry sweep.  Every handler works on its own          *)
(* in-memory Report (findById -> docToReport) and writes it back with      *)
(* update(), which is a $set of the whole toJSON() document.               *)
(***************************************************************************)
EXTENDS Integers, Sequences, FiniteSets, TLC

(***************************************************************************)
(* Bounds of the model.                                                    *)
(***************************************************************************)
MaxTicks == 1         \* millisecond steps of the clock (the retention jump apart)
MaxAnalyzeCalls == 1  \* calls of the synchronous analyze-data use case
MaxDownloads == 2     \* download requests issued, by all callers
MaxRedeliveries == 1  \* times the queue hands a stalled analysis job out again

(***************************************************************************)
(* Program constants.                                                      *)
(***************************************************************************)
RetentionMs == 604800000     \* 7 * 24 * 60 * 60 * 1000
RenderMaxAttempts == 3       \* QUEUE_MAX_RETRIES || '3'
MLMaxAttempts == 2           \* attempts: 2
MLMinDataPoints == 100       \* ML_MIN_DATA_POINTS || '100'

(***************************************************************************)
(* Optional values.  A JavaScript field is undefined, null or a value; the *)
(* BSON serializer of the Mongo driver writes undefined as null.           *)
(***************************************************************************)
Undefined == <<"undefined">>
Null == <<"null">>
Some(v) == <<"some", v>>
Present(x) == x # Undefined /\ x # Null
Val(x) == x[2]
\* JavaScript truthiness of an optional field holding a Date or a string
Truthy(x) == Present(x)

RID == "r1"          \* the uuid of the one report of the model
Owner == "u1"
\* concurrent requests to GET /api/reports/:id/download
Downloaders == {"d1", "d2"}
Statuses == {"PENDING", "PROCESSING", "ANALYZING", "COMPLETED", "FAILED"}
Terminal == {"COMPLETED", "FAILED"}

VARIABLES
    db,          \* the reports collection: report id -> stored document
    now,         \* the wall clock (ms)
    ticks,       \* small clock steps taken so far
    files,       \* file paths that exist in the storage directory
    subPc,       \* GenerateReportUseCase.execute: position
    subReport,   \* GenerateReportUseCase.execute: its Report
    subDto,      \* GenerateReportUseCase.execute: the request
    renderJob,   \* the render job in the 'reports' queue
    rPc,         \* ReportWorker.processReport: position
    rReport,     \* ReportWorker.processReport: its Report
    mlJob,       \* the analysis job in the 'ml-analysis' queue
    mPc,         \* MLAnalysisWorker.processAnalysis: position
    mReport,     \* MLAnalysisWorker.processAnalysis: its Report
    aPc,         \* AnalyzeDataUseCase.execute: position
    aReport,     \* AnalyzeDataUseCase.execute: its Report
    aCalls,      \* AnalyzeDataUseCase.execute: calls made
    dPc,         \* DownloadReportUseCase.execute, per caller: position
    dReport,     \* DownloadReportUseCase.execute, per caller: its Report
    dCalls,      \* DownloadReportUseCase.execute: calls made
    downloaded,  \* calls of DownloadReportUseCase.execute that returned a file
    series,      \* the data: number[] given to an analysis service
    params,      \* the other arguments of the call
    outcome      \* what the call returned or threw

vars == <<db, now, ticks, files, subPc, subReport, subDto, renderJob, rPc, rReport,
          mlJob, mPc, mReport, aPc, aReport, aCalls, dPc, dReport, dCalls,
          downloaded, series, params, outcome>>

(***************************************************************************)
(* The Report entity.                                                      *)
(***************************************************************************)
\* new Report(id, userId, type, format, metadata, PENDING, ..., createdAt, ..., 0, ai)
NewReport(userId, createdAt, ai) ==
    [ status |-> "PENDING",
      userId |-> userId,
      filePath |-> Undefined,
      fileSize |-> Undefined,
      downloadUrl |-> Undefined,
      error |-> Undefined,
      createdAt |-> createdAt,
      completedAt |-> Undefined,
      expiresAt |-> Undefined,
      downloadCount |-> 0,
      aiAnalysisEnabled |-> ai,
      aiInsights |-> Undefined,
      suggestedKPIs |-> Undefined,
      dataQuality |-> Undefined ]

\* the value of a handler's Report variable while it holds none
NoReport == [NewReport("", 0, FALSE) EXCEPT !.status = "NONE"]

markAsProcessing(r) == [r EXCEPT !.status = "PROCESSING"]

markAsAnalyzing(r) == [r EXCEPT !.status = "ANALYZING"]

\* t1 is the clock at `new Date()`, t2 the clock at `Date.now()` two statements later
markAsCompleted(r, filePath, fileSize, downloadUrl, t1, t2) ==
    [r EXCEPT !.status = "COMPLETED",
              !.filePath = Some(filePath),
              !.fileSize = Some(fileSize),
              !.downloadUrl = Some(downloadUrl),
              !.completedAt = Some(t1),
              !.expiresAt = Some(t2 + RetentionMs)]

markAsFailed(r, error, t) ==
    [r EXCEPT !.status = "FAILED",
              !.error = Some(error),
              !.completedAt = Some(t)]

\* the same with an insight the list already holds left out
addAIInsight_unique(r, insight) ==
    [r EXCEPT !.aiInsights =
        IF ~Truthy(r.aiInsights) THEN Some(<<insight>>)
        ELSE IF \E i \in DOMAIN Val(r.aiInsights) : Val(r.aiInsights)[i] = insight
        THEN r.aiInsights
        ELSE Some(Append(Val(r.aiInsights), insight))]

addAIInsight(r, insight) ==
    [r EXCEPT !.aiInsights =
        IF Truthy(r.aiInsights) THEN Some(Append(Val(r.aiInsights), insight))
                                ELSE Some(<<insight>>)]

\* the same with the report marked as analyzing
addKPISuggestions_marking(r, kpis) == [r EXCEPT !.suggestedKPIs = Some(kpis),
                                               !.status = "ANALYZING"]

addKPISuggestions(r, kpis) == [r EXCEPT !.suggestedKPIs = Some(kpis)]

setDataQuality(r, quality) == [r EXCEPT !.dataQuality = Some(quality)]

incrementDownloadCount(r) == [r EXCEPT !.downloadCount = @ + 1]

isExpired(r, t) == IF ~Truthy(r.expiresAt) THEN FALSE ELSE t > Val(r.expiresAt)

canBeDownloaded(r, t) == r.status = "COMPLETED" /\ ~isExpired(r, t)

(***************************************************************************)
(* MongoReportRepository.                                                  *)
(***************************************************************************)
\* BSON serialization of one field: undefined is stored as null
Bson(x) == IF x = Undefined THEN Null ELSE x

OptionalFields == {"filePath", "fileSize", "downloadUrl", "error", "completedAt",
                   "expiresAt", "aiInsights", "suggestedKPIs", "dataQuality"}

\* Report.toJSON followed by the driver's serialization
toJSON(r) ==
    [f \in DOMAIN r |-> IF f \in OptionalFields THEN Bson(r[f]) ELSE r[f]]

docToReport(doc) ==
    [doc EXCEPT !.completedAt = IF Truthy(doc.completedAt) THEN doc.completedAt ELSE Undefined,
                !.expiresAt = IF Truthy(doc.expiresAt) THEN doc.expiresAt ELSE Undefined]

NoReports == [i \in {} |-> NoReport]

Stored(d, id) == id \in DOMAIN d

\* insertOne({_id: report.id, ...report.toJSON()})
save(d, id, r) == [i \in DOMAIN d \cup {id} |-> IF i = id THEN toJSON(r) ELSE d[i]]

\* findOne({_id: id}); null is NoReport
findById(d, id) == IF Stored(d, id) THEN docToReport(d[id]) ELSE NoReport

\* updateOne({_id: report.id}, {$set: report.toJSON()}): every field of the
\* document is set from the in-memory Report; no upsert
update(d, id, r) == IF Stored(d, id) THEN [d EXCEPT ![id] = toJSON(r)] ELSE d

\* deleteMany({expiresAt: {$lte: new Date()}}): null is not matched by $lte
deleteExpired(d, t) ==
    [i \in {j \in DOMAIN d : ~(Present(d[j].expiresAt) /\ Val(d[j].expiresAt) <= t)} |-> d[i]]


(***************************************************************************)
(* ReportDomainService.                                                    *)
(***************************************************************************)
Formats == {"PDF", "EXCEL", "CSV", "HTML", "JSON"}

MaxRowsPdf == 10000           \* [ReportFormat.PDF]: 10000
MaxRowsHtml == 50000          \* [ReportFormat.HTML]: 50000
MaxRowsExcel == 100000        \* MAX_ROWS_EXCEL || '100000'
MaxRowsCsv == 1000000         \* MAX_ROWS_CSV || '1000000'
MaxRowsJson == 1000000        \* [ReportFormat.JSON]: 1000000
MaxTitleLength == 200         \* title.length > 200

\* limits[format]; undefined for a format outside the enum, and
\* `length > undefined` is false
getMaxRows(format) ==
    CASE format = "EXCEL" -> Some(MaxRowsExcel)
      [] format = "CSV" -> Some(MaxRowsCsv)
      [] format = "PDF" -> Some(MaxRowsPdf)
      [] format = "HTML" -> Some(MaxRowsHtml)
      [] format = "JSON" -> Some(MaxRowsJson)
      [] OTHER -> Undefined

\* the same without the limit on the title
validateReport_anyLength(userId, titleLen, format) ==
    /\ userId # ""
    /\ titleLen # 0
    /\ format \in Formats

\* TRUE iff validateReport returns without throwing; a title is its length
validateReport(userId, titleLen, format) ==
    /\ userId # ""
    /\ titleLen # 0
    /\ ~(titleLen > MaxTitleLength)
    /\ format \in Formats

\* the same with the minimum excluded
shouldEnableMLAnalysis_exclusive(rowCount) == rowCount > MLMinDataPoints

shouldEnableMLAnalysis(rowCount) == rowCount >= MLMinDataPoints

(***************************************************************************)
(* Requests.                                                               *)
(***************************************************************************)
\* dto.aiAnalysisEnabled ?? true
AiEnabled(dto) == IF dto.aiAnalysisEnabled = Undefined THEN TRUE ELSE Val(dto.aiAnalysisEnabled)

Dtos ==
    { [userId |-> u, titleLen |-> t, format |-> f, rows |-> n, aiAnalysisEnabled |-> ai] :
        u \in {Owner}, t \in {5}, f \in {"PDF"},
        n \in {MLMinDataPoints - 1, MLMinDataPoints},
        ai \in {Undefined, Some(FALSE), Some(TRUE)} }
    \cup
    { [userId |-> "", titleLen |-> 5, format |-> "PDF", rows |-> 5,
       aiAnalysisEnabled |-> Undefined],
      [userId |-> Owner, titleLen |-> MaxTitleLength + 1, format |-> "CSV", rows |-> 5,
       aiAnalysisEnabled |-> Undefined],
      [userId |-> Owner, titleLen |-> 0, format |-> "CSV", rows |-> 5,
       aiAnalysisEnabled |-> Undefined],
      [userId |-> Owner, titleLen |-> 5, format |-> "XML", rows |-> 5,
       aiAnalysisEnabled |-> Undefined],
      [userId |-> Owner, titleLen |-> 5, format |-> "PDF", rows |-> MaxRowsPdf + 1,
       aiAnalysisEnabled |-> Undefined] }

NoDto == [userId |-> "", titleLen |-> 0, format |-> "", rows |-> 0,
          aiAnalysisEnabled |-> Undefined]

(***************************************************************************)
(* Job data and analysis flags of the analysis job.                        *)
(***************************************************************************)
LowCompleteness == 90     \* dataQuality.completeness < 90

DataSets ==
    { [completeness |-> 80, anomalyFields |-> 1, forecastFields |-> 1, correlations |-> 1],
      [completeness |-> 100, anomalyFields |-> 0, forecastFields |-> 1, correlations |-> 0] }

NoData == [completeness |-> 0, anomalyFields |-> 0, forecastFields |-> 0, correlations |-> 0]

FlagSets ==
    { [anomaly |-> TRUE, forecasting |-> TRUE, kpi |-> TRUE],
      [anomaly |-> FALSE, forecasting |-> FALSE, kpi |-> FALSE] }

NoFlags == [anomaly |-> FALSE, forecasting |-> FALSE, kpi |-> FALSE]

(***************************************************************************)
(* Queue jobs (BullMQ): a job is waiting, active, completed or failed, and *)
(* counts the attempts made; failedEvents counts the 'failed' events of    *)
(* the worker for the job, which the worker's listener logs.               *)
(***************************************************************************)
NoJob == [state |-> "none", attemptsMade |-> 0, failedEvents |-> 0]

\* queue.add(name, data, {attempts, backoff})
Enqueued == [state |-> "waiting", attemptsMade |-> 0, failedEvents |-> 0]

\* the same with the job retried whatever the attempts made
AttemptFailed_retryAlways(job, maxAttempts) ==
    [state |-> "waiting", attemptsMade |-> job.attemptsMade + 1,
     failedEvents |-> job.failedEvents + 1]

\* the handler threw: the worker emits 'failed'; the job is retried while
\* attempts remain, else it is failed
AttemptFailed(job, maxAttempts) ==
    IF job.attemptsMade + 1 < maxAttempts
    THEN [state |-> "waiting", attemptsMade |-> job.attemptsMade + 1,
          failedEvents |-> job.failedEvents + 1]
    ELSE [state |-> "failed", attemptsMade |-> job.attemptsMade + 1,
          failedEvents |-> job.failedEvents + 1]

\* stalledCount counts the times the job lost its lock and went back to wait
NoMLJob == [state |-> "none", attemptsMade |-> 0, failedEvents |-> 0,
            stalledCount |-> 0, data |-> NoData, flags |-> NoFlags]

\* the handler returned
AttemptCompleted(job) ==
    [state |-> "completed", attemptsMade |-> job.attemptsMade + 1,
     failedEvents |-> job.failedEvents]

(***************************************************************************)
(* Calls of the analysis services: no call yet.                            *)
(***************************************************************************)
NoParams == [periods |-> 0, windowSize |-> 0]
NoResult == [kind |-> "none"]

(***************************************************************************)
(* Initial state: an empty collection, empty queues, idle handlers.        *)
(***************************************************************************)
LifecycleInit ==
    /\ db = NoReports
    /\ now = 0
    /\ ticks = 0
    /\ files = {}
    /\ subPc = "start"
    /\ subReport = NoReport
    /\ subDto = NoDto
    /\ renderJob = NoJob
    /\ rPc = "idle"
    /\ rReport = NoReport
    /\ mlJob = NoMLJob
    /\ mPc = "idle"
    /\ mReport = NoReport
    /\ aPc = "idle"
    /\ aReport = NoReport
    /\ aCalls = 0
    /\ dPc = [d \in Downloaders |-> "idle"]
    /\ dReport = [d \in Downloaders |-> NoReport]
    /\ dCalls = 0
    /\ downloaded = 0

Init ==
    /\ LifecycleInit
    /\ series = <<>>
    /\ params = NoParams
    /\ outcome = NoResult

submitVars == <<subPc, subReport, subDto>>
renderVars == <<renderJob, rPc, rReport>>
mlVars == <<mlJob, mPc, mReport>>
analyzeVars == <<aPc, aReport, aCalls>>
downloadVars == <<dPc, dReport, dCalls, downloaded>>
serviceVars == <<series, params, outcome>>
clockVars == <<now, ticks>>

(***************************************************************************)
(* The clock.  The handlers compare the clock only with a stored           *)
(* expiresAt, so the clock moves once the stored report carries one: by a  *)
(* millisecond, or by the retention window up to or past the expiry.       *)
(***************************************************************************)
ClockObserved == Stored(db, RID) /\ Present(db[RID].expiresAt)

Tick ==
    /\ ClockObserved
    /\ ticks < MaxTicks
    /\ now' = now + 1
    /\ ticks' = ticks + 1
    /\ UNCHANGED <<db, files, submitVars, renderVars, mlVars, analyzeVars, downloadVars,
                   serviceVars>>

TickRetention ==
    /\ ClockObserved
    /\ now < Val(db[RID].expiresAt)
    /\ now' = now + RetentionMs
    /\ UNCHANGED <<ticks, db, files, submitVars, renderVars, mlVars, analyzeVars, downloadVars,
                   serviceVars>>

(***************************************************************************)
(* GenerateReportUseCase.execute                                           *)
(***************************************************************************)
\* lines 17-57: size check, new Report, validateReport, repository.save
SubmitSaveOf(dto) ==
    /\ subPc = "start"
    /\ LET maxRows == getMaxRows(dto.format)
           tooLarge == Present(maxRows) /\ dto.rows > Val(maxRows)
           report == NewReport(dto.userId, now, AiEnabled(dto))
       IN  IF tooLarge \/ ~validateReport(dto.userId, dto.titleLen, dto.format)
           THEN /\ subPc' = "rejected"
                /\ UNCHANGED <<db, subReport, subDto>>
           ELSE /\ db' = save(db, RID, report)
                /\ subReport' = report
                /\ subDto' = dto
                /\ subPc' = "saved"
    /\ UNCHANGED <<clockVars, files, renderVars, mlVars, analyzeVars, downloadVars,
                   serviceVars>>

SubmitSave == \E dto \in Dtos : SubmitSaveOf(dto)

\* lines 60-78: reportQueue.add; a queue error propagates to the caller
SubmitEnqueueRender ==
    /\ subPc = "saved"
    /\ \E ok \in BOOLEAN :
        IF ok
        THEN /\ renderJob' = Enqueued
             /\ subPc' = "renderQueued"
             /\ UNCHANGED <<subReport, subDto>>
        ELSE /\ subPc' = "dispatchFailed"
             /\ subReport' = NoReport
             /\ subDto' = NoDto
             /\ UNCHANGED renderJob
    /\ UNCHANGED <<db, clockVars, files, rPc, rReport, mlVars, analyzeVars, downloadVars,
                   serviceVars>>

\* lines 81-102: mlQueue.add when enabled and enough rows, then return the DTO
SubmitEnqueueML ==
    /\ subPc = "renderQueued"
    /\ IF subReport.aiAnalysisEnabled /\ shouldEnableMLAnalysis(subDto.rows)
       THEN \E ok \in BOOLEAN :
              IF ok
              THEN /\ \E data \in DataSets, flags \in FlagSets :
                        mlJob' = [state |-> "waiting", attemptsMade |-> 0,
                                  failedEvents |-> 0, stalledCount |-> 0,
                                  data |-> data, flags |-> flags]
                   /\ subPc' = "done"
              ELSE mlJob' = mlJob /\ subPc' = "dispatchFailed"
       ELSE mlJob' = mlJob /\ subPc' = "done"
    /\ subReport' = NoReport
    /\ subDto' = NoDto
    /\ UNCHANGED <<db, clockVars, files, renderVars, mPc, mReport, analyzeVars, downloadVars,
                   serviceVars>>

(***************************************************************************)
(* ReportWorker.processReport                                              *)
(***************************************************************************)
FilePath == "storage/r1.pdf"
FileSize == 2048      \* fs.statSync(filePath).size of the rendered file
DownloadUrl == "/api/reports/r1/download"
RenderError == "render error"

\* lines 97-104: the worker takes the job and loads the report
RenderStart ==
    /\ renderJob.state = "waiting"
    /\ rPc = "idle"
    /\ LET report == findById(db, RID)
       IN  IF report = NoReport
           THEN /\ renderJob' = AttemptFailed(renderJob, RenderMaxAttempts)
                /\ UNCHANGED <<rPc, rReport>>
           ELSE /\ renderJob' = [renderJob EXCEPT !.state = "active"]
                /\ rReport' = report
                /\ rPc' = "loaded"
    /\ UNCHANGED <<db, clockVars, files, submitVars, mlVars, analyzeVars, downloadVars,
                   serviceVars>>

\* lines 108-109: markAsProcessing, repository.update
RenderMarkProcessing ==
    /\ rPc = "loaded"
    /\ LET report == markAsProcessing(rReport)
       IN  /\ rReport' = report
           /\ db' = update(db, RID, report)
    /\ rPc' = "generating"
    /\ UNCHANGED <<clockVars, files, submitVars, renderJob, mlVars, analyzeVars, downloadVars,
                   serviceVars>>

\* lines 160-164: catch: markAsFailed, repository.update, rethrow
RenderCatch(report) ==
    /\ db' = update(db, RID, markAsFailed(report, RenderError, now))
    /\ renderJob' = AttemptFailed(renderJob, RenderMaxAttempts)
    /\ rReport' = NoReport
    /\ rPc' = "idle"

\* lines 110-146: the encoder runs; on success markAsCompleted and update
RenderGenerate ==
    /\ rPc = "generating"
    /\ \E ok \in BOOLEAN :
        IF ok
        THEN \E skew \in 0..(MaxTicks - ticks) :
               LET report == markAsCompleted(rReport, FilePath, FileSize, DownloadUrl,
                                             now, now + skew)
               IN  /\ now' = now + skew
                   /\ ticks' = ticks + skew
                   /\ files' = files \cup {FilePath}
                   /\ rReport' = report
                   /\ db' = update(db, RID, report)
                   /\ rPc' = "completed"
                   /\ UNCHANGED renderJob
        ELSE /\ RenderCatch(rReport)
             /\ UNCHANGED <<now, ticks, files>>
    /\ UNCHANGED <<submitVars, mlVars, analyzeVars, downloadVars,
                   serviceVars>>

\* lines 148-158: progress updates, email, event; an error reaches the catch
RenderPost ==
    /\ rPc = "completed"
    /\ \E ok \in BOOLEAN :
        IF ok
        THEN /\ renderJob' = AttemptCompleted(renderJob)
             /\ rReport' = NoReport
             /\ rPc' = "idle"
             /\ UNCHANGED db
        ELSE RenderCatch(rReport)
    /\ UNCHANGED <<clockVars, files, submitVars, mlVars, analyzeVars, downloadVars,
                   serviceVars>>

(***************************************************************************)
(* MLAnalysisWorker.processAnalysis                                        *)
(*                                                                         *)
(* The job data is summarized by what the analysis services find in it:    *)
(* its completeness and the numbers of fields with anomalies, of fields    *)
(* that are forecast and of correlated pairs.                              *)
(***************************************************************************)
\* outcomes of kpiService.suggestKPIs: a list, an empty list, or an error
KpiOutcomes == {"kpis", "empty", "throws"}

Insight(type, title) == [type |-> type, title |-> title]

\* n insights of one kind, one per field or pair
Repeat(n, x) == [i \in 1..n |-> x]

\* line 98: qualityAnalyzer.analyze(data)
Quality(data) == [completeness |-> data.completeness]

\* lines 102-111
Step1Insights(data) ==
    IF data.completeness < LowCompleteness
    THEN <<Insight("suggestion", "Calidad de Datos Baja")>>
    ELSE <<>>

\* the same whatever the flag
Step2Insights_unflagged(data, flags) ==
    Repeat(data.anomalyFields, Insight("anomaly", "Anomalias Detectadas"))

\* lines 114-140
Step2Insights(data, flags) ==
    IF flags.anomaly
    THEN Repeat(data.anomalyFields, Insight("anomaly", "Anomalias Detectadas"))
    ELSE <<>>

\* lines 143-169
Step3Insights(data, flags) ==
    IF flags.forecasting
    THEN Repeat(data.forecastFields, Insight("forecast", "Pronostico"))
    ELSE <<>>

\* lines 172-198: the inner try swallows an error of the service
Step4Insights(flags, kpi) ==
    IF flags.kpi /\ kpi = "kpis"
    THEN <<Insight("suggestion", "KPIs Sugeridos")>>
    ELSE <<>>

Step4Report(r, flags, kpi) ==
    IF flags.kpi /\ kpi = "kpis" THEN addKPISuggestions(r, "kpis") ELSE r

\* lines 201-214
Step5Insights(data) == Repeat(data.correlations, Insight("correlation", "Correlacion"))

\* the local `insights` array once steps 1..n have run
InsightsAfter(n, data, flags, kpi) ==
    (IF n >= 1 THEN Step1Insights(data) ELSE <<>>)
    \o (IF n >= 2 THEN Step2Insights(data, flags) ELSE <<>>)
    \o (IF n >= 3 THEN Step3Insights(data, flags) ELSE <<>>)
    \o (IF n >= 4 THEN Step4Insights(flags, kpi) ELSE <<>>)
    \o (IF n >= 5 THEN Step5Insights(data) ELSE <<>>)

\* the Report once steps 1..n have run: steps 1 and 4 write to it
ReportAfter(r, n, data, flags, kpi) ==
    LET r1 == IF n >= 1 THEN setDataQuality(r, Quality(data)) ELSE r
    IN  IF n >= 4 THEN Step4Report(r1, flags, kpi) ELSE r1

RECURSIVE AddAll(_, _)
\* line 217: insights.forEach(insight => report.addAIInsight(insight))
AddAll(r, insights) ==
    IF insights = <<>> THEN r
    ELSE AddAll(addAIInsight(r, Head(insights)), Tail(insights))

\* lines 81-88: the worker takes the job and loads the report
MLStart ==
    /\ mlJob.state = "waiting"
    /\ mPc = "idle"
    /\ LET report == findById(db, RID)
       IN  IF report = NoReport
           THEN /\ mlJob' = [mlJob EXCEPT
                                !.state = AttemptFailed(mlJob, MLMaxAttempts).state,
                                !.attemptsMade = AttemptFailed(mlJob, MLMaxAttempts).attemptsMade,
                                !.failedEvents = AttemptFailed(mlJob, MLMaxAttempts).failedEvents]
                /\ UNCHANGED <<mPc, mReport>>
           ELSE /\ mlJob' = [mlJob EXCEPT !.state = "active"]
                /\ mReport' = report
                /\ mPc' = "loaded"
    /\ UNCHANGED <<db, clockVars, files, submitVars, renderVars, analyzeVars, downloadVars,
                   serviceVars>>

\* lines 91-92: markAsAnalyzing, repository.update
MLMarkAnalyzing ==
    /\ mPc = "loaded"
    /\ LET report == markAsAnalyzing(mReport)
       IN  /\ mReport' = report
           /\ db' = update(db, RID, report)
    /\ mPc' = "analyzing"
    /\ UNCHANGED <<clockVars, files, submitVars, renderVars, mlJob, analyzeVars, downloadVars,
                   serviceVars>>

\* step n executes code: steps 2-4 only when their flag is set
StepRuns(n, flags) ==
    CASE n = 2 -> flags.anomaly
      [] n = 3 -> flags.forecasting
      [] n = 4 -> flags.kpi
      [] OTHER -> TRUE

\* lines 94-220: steps 1-5, addAIInsight, repository.update.  An error in
\* step `failAt` (6: the progress update before saving; 0: none) reaches the
\* catch of lines 224-228, which writes the Report as it is and returns.
MLAnalyzeWith(kpi, failAt) ==
    /\ mPc = "analyzing"
    /\ LET ran == IF failAt = 0 THEN 5 ELSE failAt - 1
            stepped == ReportAfter(mReport, ran, mlJob.data, mlJob.flags, kpi)
            insights == InsightsAfter(ran, mlJob.data, mlJob.flags, kpi)
            report == IF failAt \in {0, 6} THEN AddAll(stepped, insights) ELSE stepped
        IN  /\ StepRuns(failAt, mlJob.flags)
            /\ db' = update(db, RID, report)
            /\ IF failAt = 0
               THEN /\ mReport' = report
                    /\ mPc' = "saved"
                    /\ UNCHANGED mlJob
               ELSE /\ mReport' = NoReport
                    /\ mPc' = "idle"
                    /\ mlJob' = [mlJob EXCEPT !.state = "completed",
                                              !.attemptsMade = @ + 1]
    /\ UNCHANGED <<clockVars, files, submitVars, renderVars, analyzeVars, downloadVars,
                   serviceVars>>

MLAnalyze == \E kpi \in KpiOutcomes, failAt \in 0..6 : MLAnalyzeWith(kpi, failAt)

\* line 222: the last progress update; an error reaches the catch, which
\* writes the Report again
MLDone ==
    /\ mPc = "saved"
    /\ \E ok \in BOOLEAN :
        IF ok THEN UNCHANGED db ELSE db' = update(db, RID, mReport)
    /\ mReport' = NoReport
    /\ mPc' = "idle"
    /\ mlJob' = [mlJob EXCEPT !.state = "completed", !.attemptsMade = @ + 1]
    /\ UNCHANGED <<clockVars, files, submitVars, renderVars, analyzeVars, downloadVars,
                   serviceVars>>

\* the job's lock expires while the handler runs (the analysis blocks the
\* event loop longer than the lock lasts): the queue moves the job back to
\* wait and the handler's return is dropped; what the handler stored stays
MLStalled ==
    /\ mPc = "saved"
    /\ mlJob.stalledCount < MaxRedeliveries
    /\ mlJob' = [mlJob EXCEPT !.state = "waiting", !.stalledCount = @ + 1]
    /\ mReport' = NoReport
    /\ mPc' = "idle"
    /\ UNCHANGED <<db, clockVars, files, submitVars, renderVars, analyzeVars, downloadVars,
                   serviceVars>>

(***************************************************************************)
(* AnalyzeDataUseCase.execute                                              *)
(***************************************************************************)
AnalysisError == "Error en analisis de IA"

\* results of mlService.analyzeData: insights, suggested KPIs, data quality
AnalysisResults ==
    { [insights |-> <<Insight("trend", "Tendencia")>>, suggestedKPIs |-> <<"kpi">>,
       dataQuality |-> Some([completeness |-> 100])],
      [insights |-> <<>>, suggestedKPIs |-> <<>>, dataQuality |-> Undefined] }

\* lines 500-509: load the report; unknown id or analysis disabled: throw
AnalyzeStart ==
    /\ aPc = "idle"
    /\ aCalls < MaxAnalyzeCalls
    /\ aCalls' = aCalls + 1
    /\ LET report == findById(db, RID)
       IN  IF report = NoReport \/ ~report.aiAnalysisEnabled
           THEN UNCHANGED <<aPc, aReport>>
           ELSE aReport' = report /\ aPc' = "loaded"
    /\ UNCHANGED <<db, clockVars, files, submitVars, renderVars, mlVars, downloadVars,
                   serviceVars>>

\* lines 512-513: markAsAnalyzing, repository.update
AnalyzeMark ==
    /\ aPc = "loaded"
    /\ LET report == markAsAnalyzing(aReport)
       IN  /\ aReport' = report
           /\ db' = update(db, RID, report)
    /\ aPc' = "analyzing"
    /\ UNCHANGED <<aCalls, clockVars, files, submitVars, renderVars, mlVars, downloadVars,
                   serviceVars>>

\* lines 520-530: the Report with the result applied
ApplyResult(r, result) ==
    LET r1 == AddAll(r, result.insights)
        r2 == IF Len(result.suggestedKPIs) > 0
              THEN addKPISuggestions(r1, result.suggestedKPIs) ELSE r1
    IN  IF Truthy(result.dataQuality) THEN setDataQuality(r2, Val(result.dataQuality)) ELSE r2

\* lines 515-542: the analysis returns and the report is updated, or it
\* throws and the catch marks the report failed
AnalyzeFinish ==
    /\ aPc = "analyzing"
    /\ \E ok \in BOOLEAN :
        IF ok
        THEN \E result \in AnalysisResults : db' = update(db, RID, ApplyResult(aReport, result))
        ELSE db' = update(db, RID, markAsFailed(aReport, AnalysisError, now))
    /\ aReport' = NoReport
    /\ aPc' = "idle"
    /\ UNCHANGED <<aCalls, clockVars, files, submitVars, renderVars, mlVars, downloadVars,
                   serviceVars>>

(***************************************************************************)
(* DownloadReportUseCase.execute                                           *)
(***************************************************************************)
Users == {Owner, "u2"}

\* the same without the comparison of the owner
DownloadAllowed_anyUser(report, userId, t, existing) ==
    /\ report # NoReport
    /\ canBeDownloaded(report, t)
    /\ Truthy(report.filePath) /\ Val(report.filePath) \in existing

\* lines 18-40: TRUE iff no check throws
DownloadAllowed(report, userId, t, existing) ==
    /\ report # NoReport
    /\ report.userId = userId
    /\ canBeDownloaded(report, t)
    /\ Truthy(report.filePath) /\ Val(report.filePath) \in existing

\* lines 18-40 for the request of `userId`: load the report and check it; a
\* failed check throws
DownloadStartAs(d, userId) ==
    /\ dPc[d] = "idle"
    /\ dCalls < MaxDownloads
    /\ dCalls' = dCalls + 1
    /\ LET report == findById(db, RID)
       IN  IF DownloadAllowed(report, userId, now, files)
           THEN /\ dReport' = [dReport EXCEPT ![d] = report]
                /\ dPc' = [dPc EXCEPT ![d] = "checked"]
           ELSE UNCHANGED <<dPc, dReport>>
    /\ UNCHANGED <<downloaded, db, clockVars, files, submitVars, renderVars, mlVars, analyzeVars,
                   serviceVars>>

DownloadStart(d) == \E userId \in Users : DownloadStartAs(d, userId)

\* lines 43-52: incrementDownloadCount, repository.update, return the file
DownloadCount(d) ==
    /\ dPc[d] = "checked"
    /\ db' = update(db, RID, incrementDownloadCount(dReport[d]))
    /\ dReport' = [dReport EXCEPT ![d] = NoReport]
    /\ dPc' = [dPc EXCEPT ![d] = "idle"]
    /\ downloaded' = downloaded + 1
    /\ UNCHANGED <<dCalls, clockVars, files, submitVars, renderVars, mlVars, analyzeVars,
                   serviceVars>>

(***************************************************************************)
(* The expiry sweep.                                                       *)
(***************************************************************************)
Sweep ==
    /\ db' = deleteExpired(db, now)
    /\ db' # db
    /\ UNCHANGED <<clockVars, files, submitVars, renderVars, mlVars, analyzeVars, downloadVars,
                   serviceVars>>

(***************************************************************************)
(* AnomalyDetectionService.  The data are integers and every comparison of *)
(* the code is made exactly, on both sides scaled to integers: the         *)
(* deviations from the mean are counted in the largest unit that makes     *)
(* them all integers, and the variance is the sum of their squares over    *)
(* the length.  A score is kept as what it is among NaN, Infinity, 0 and a *)
(* positive number.                                                        *)
(***************************************************************************)
ThresholdNum == 5             \* threshold: number = 2.5, as 5 / 2
ThresholdDen == 2
IsolationThreshold == 3       \* isolationScore > 3.0

RECURSIVE SumSeq(_)
SumSeq(s) == IF s = <<>> THEN 0 ELSE Head(s) + SumSeq(Tail(s))

Abs(x) == IF x < 0 THEN -x ELSE x

RECURSIVE GCD(_, _)
GCD(a, b) == IF b = 0 THEN a ELSE GCD(b, a % b)

RECURSIVE GCDSeq(_)
GCDSeq(s) == IF s = <<>> THEN 0 ELSE GCD(Abs(Head(s)), GCDSeq(Tail(s)))

\* Len(data) * (data[i] - mean(data))
NDev(data, i) == Len(data) * data[i] - SumSeq(data)

\* the unit of the deviations, in Len(data)-ths
DevUnit(data) ==
    LET g == GCDSeq([i \in 1..Len(data) |-> NDev(data, i)])
    IN  IF g = 0 THEN 1 ELSE g

\* data[i] - mean(data), in units
Dev(data, i) == NDev(data, i) \div DevUnit(data)

\* Len(data) * variance(data) of the population, in units squared
NVar(data) == SumSeq([i \in 1..Len(data) |-> Dev(data, i) * Dev(data, i)])

\* the class of the quotient num / den of two numbers, num >= 0 and den >= 0
Quotient(num, den) ==
    IF den = 0 THEN (IF num = 0 THEN "NaN" ELSE "Infinity")
    ELSE IF num = 0 THEN "0" ELSE "positive"

\* Math.abs((value - avg) / stdDev)
ZScore(data, i) == Quotient(Abs(Dev(data, i)), NVar(data))

\* zScore > tNum / tDen, that is n * dev^2 / NVar > (tNum / tDen)^2; a
\* comparison with NaN is false
ZScoreAbove(data, i, tNum, tDen) ==
    IF NVar(data) = 0 THEN Dev(data, i) # 0
    ELSE Len(data) * Dev(data, i) * Dev(data, i) * tDen * tDen > tNum * tNum * NVar(data)

AnomalyCount(anomalies) == Cardinality({i \in DOMAIN anomalies : anomalies[i].isAnomaly})

\* the AnomalyResult; anomalyPercentage is anomalyCount / data.length * 100
AnomalyResult(anomalies, method) ==
    [kind |-> "anomalies", anomalies |-> anomalies, method |-> method,
     anomalyCount |-> AnomalyCount(anomalies)]

detectWithZScore(data, tNum, tDen) ==
    AnomalyResult([i \in 1..Len(data) |->
                      [index |-> i - 1, value |-> data[i], score |-> ZScore(data, i),
                       isAnomaly |-> ZScoreAbove(data, i, tNum, tDen)]],
                  "zscore")

RECURSIVE Insert(_, _)
Insert(x, sorted) ==
    IF sorted = <<>> THEN <<x>>
    ELSE IF x <= Head(sorted) THEN <<x>> \o sorted
    ELSE <<Head(sorted)>> \o Insert(x, Tail(sorted))

RECURSIVE Sorted(_)
\* [...data].sort((a, b) => a - b)
Sorted(data) == IF data = <<>> THEN <<>> ELSE Insert(Head(data), Sorted(Tail(data)))

\* twice quantile(data, pNum / pDen) of simple-statistics: with idx = n * p,
\* the element above idx if idx is no integer, else the mean of the two
\* elements around idx if n is even, else the element at idx
Quantile2(data, pNum, pDen) ==
    LET x == Sorted(data)
        n == Len(data)
        idx == (n * pNum) \div pDen
    IN  IF (n * pNum) % pDen # 0 THEN 2 * x[idx + 1]
        ELSE IF n % 2 = 0 THEN x[idx] + x[idx + 1]
        ELSE 2 * x[idx + 1]

\* lowerBound = q1 - 1.5 * iqr and upperBound = q3 + 1.5 * iqr, four times
detectWithIQR(data) ==
    LET q1 == Quantile2(data, 1, 4)
        q3 == Quantile2(data, 3, 4)
        iqr == q3 - q1
        lowerBound == 2 * q1 - 3 * iqr
        upperBound == 2 * q3 + 3 * iqr
    IN  AnomalyResult([i \in 1..Len(data) |->
            LET isLower == 4 * data[i] < lowerBound
                isUpper == 4 * data[i] > upperBound
            IN  [index |-> i - 1, value |-> data[i],
                 score |-> IF isLower THEN Quotient(lowerBound - 4 * data[i], iqr)
                           ELSE IF isUpper THEN Quotient(4 * data[i] - upperBound, iqr)
                           ELSE "0",
                 isAnomaly |-> isLower \/ isUpper]],
            "iqr")

\* sorted.indexOf(value), from 1
IndexOf(sorted, value) == CHOOSE i \in 1..Len(sorted) :
                             sorted[i] = value /\ \A j \in 1..(i - 1) : sorted[j] # value

\* leftDist + rightDist, twice avgNeighborDist
NeighborDist2(data, i) ==
    LET sorted == Sorted(data)
        k == IndexOf(sorted, data[i])
        leftNeighbor == IF k > 1 THEN sorted[k - 1] ELSE data[i]
        rightNeighbor == IF k < Len(sorted) THEN sorted[k + 1] ELSE data[i]
    IN  Abs(data[i] - leftNeighbor) + Abs(data[i] - rightNeighbor)

\* x > r * r for x >= 0 and r >= 0, without the square
AboveSquare(x, r) ==
    IF r = 0 THEN x > 0
    ELSE x \div r > r \/ (x \div r = r /\ x % r > 0)

\* zScore * (1 + avgNeighborDist / stdDev): NaN when stdDev is 0
IsolationScore(data, i) ==
    IF NVar(data) = 0 THEN "NaN"
    ELSE IF Dev(data, i) = 0 THEN "0" ELSE "positive"

\* isolationScore > 3.0.  With e = |Dev|, W = NVar, n = Len and A =
\* NeighborDist2 in units: e * (sd + A/2) > 3 * sd^2 and sd^2 = W/n, that is
\* 2 * n * e * sd > 6 * W - n * e * A
IsolationAbove(data, i) ==
    LET n == Len(data)
        e == Abs(Dev(data, i))
        w == NVar(data)
        a == (n * NeighborDist2(data, i)) \div DevUnit(data)
        rest == 2 * IsolationThreshold * w - n * e * a
    IN  IF w = 0 THEN FALSE
        ELSE IF rest < 0 THEN TRUE
        ELSE AboveSquare(4 * n * e * e * w, rest)

detectWithIsolationForest(data) ==
    AnomalyResult([i \in 1..Len(data) |->
                      [index |-> i - 1, value |-> data[i], score |-> IsolationScore(data, i),
                       isAnomaly |-> IsolationAbove(data, i)]],
                  "isolation_forest")

Max(a, b) == IF a > b THEN a ELSE b
Min(a, b) == IF a < b THEN a ELSE b

\* data.slice(Math.max(0, index - windowSize), Math.min(data.length, index + windowSize + 1))
Window(data, i, windowSize) ==
    SubSeq(data, Max(1, i - windowSize), Min(Len(data), i + windowSize))

\* the place of data[i] in its window
InWindow(i, windowSize) == i - Max(1, i - windowSize) + 1

detectTimeSeriesAnomalies(data, windowSize, tNum, tDen) ==
    IF Len(data) < windowSize THEN detectWithZScore(data, tNum, tDen)
    ELSE AnomalyResult([i \in 1..Len(data) |->
            LET window == Window(data, i, windowSize)
                k == InWindow(i, windowSize)
            IN  [index |-> i - 1, value |-> data[i], score |-> ZScore(window, k),
                 isAnomaly |-> ZScoreAbove(window, k, tNum, tDen)]],
            "time_series_zscore")

(***************************************************************************)
(* ForecastingService and ForecastTrendsUseCase.  Of a ForecastResult the  *)
(* method and the number of forecasts are kept.                            *)
(***************************************************************************)
ForecastMinPoints == 3        \* dto.data.length < 3
ForecastMaxPeriods == 24      \* dto.periods > 24
MovingAverageMinPoints == 10  \* data.length < 10

simpleLinearForecast(data, periods) ==
    [kind |-> "forecast", method |-> "linear_regression", forecasts |-> periods]

weightedMovingAverageForecast(data, periods) ==
    [kind |-> "forecast", method |-> "weighted_moving_average", forecasts |-> periods]

\* the same with ten points still forecast by the regression
forecast_upToTen(data, periods) ==
    IF Len(data) <= MovingAverageMinPoints
    THEN simpleLinearForecast(data, periods)
    ELSE weightedMovingAverageForecast(data, periods)

\* ForecastingService.forecast
forecast(data, periods) ==
    IF Len(data) < MovingAverageMinPoints
    THEN simpleLinearForecast(data, periods)
    ELSE weightedMovingAverageForecast(data, periods)

\* ForecastTrendsUseCase.execute: the checks throw an Error
ForecastTrendsExecute(data, periods) ==
    IF Len(data) < ForecastMinPoints
    THEN [kind |-> "error", message |-> "Se requieren al menos 3 puntos de datos"]
    ELSE IF periods <= 0 \/ periods > ForecastMaxPeriods
    THEN [kind |-> "error", message |-> "El numero de periodos debe estar entre 1 y 24"]
    ELSE forecast(data, periods)

(***************************************************************************)
(* Calls of the analysis services on bounded data.                         *)
(***************************************************************************)
MaxSeriesLen == 3       \* every series up to this length over SeriesValues
MaxLongLen == 11        \* the constant series and the ramps up to this length

SeriesValues == {0, 3, 10}

RECURSIVE SeqsOf(_, _)
\* the sequences of length n over S
SeqsOf(S, n) ==
    IF n = 0 THEN {<<>>}
    ELSE {Append(s, x) : s \in SeqsOf(S, n - 1), x \in S}

\* End-to-end scenario of the README: "Detecta automaticamente el 300"
ExampleSeries == <<100, 120, 115, 300, 125, 130>>

SeriesInputs ==
    UNION {SeqsOf(SeriesValues, n) : n \in 0..MaxSeriesLen}
    \cup {[i \in 1..n |-> v] : n \in 0..MaxLongLen, v \in {0, 7}}
    \cup {[i \in 1..n |-> i] : n \in 0..MaxLongLen}
    \cup {[i \in 1..n |-> IF i = n THEN 4 ELSE 1] : n \in 0..MaxLongLen}
    \cup {ExampleSeries}

ParamInputs == {[periods |-> p, windowSize |-> w] : p \in {0, 3, 25}, w \in {2, 10}}

ServicesInit ==
    /\ LifecycleInit
    /\ series \in SeriesInputs
    /\ params \in ParamInputs
    /\ outcome = NoResult

lifecycleVars == <<db, clockVars, files, submitVars, renderVars, mlVars, analyzeVars,
                   downloadVars>>

\* AnomalyDetectionService.detectAnomalies(data, 2.5, method); the mean of
\* no data throws
DetectAnomalies ==
    /\ outcome = NoResult
    /\ series # <<>>
    /\ \E method \in {"zscore", "iqr", "isolation_forest"} :
        outcome' = CASE method = "zscore" ->
                            detectWithZScore(series, ThresholdNum, ThresholdDen)
                     [] method = "iqr" -> detectWithIQR(series)
                     [] method = "isolation_forest" -> detectWithIsolationForest(series)
    /\ UNCHANGED <<series, params, lifecycleVars>>

\* AnomalyDetectionService.detectTimeSeriesAnomalies(data, windowSize, 2.5)
DetectTimeSeriesAnomalies ==
    /\ outcome = NoResult
    /\ series # <<>>
    /\ outcome' = [detectTimeSeriesAnomalies(series, params.windowSize,
                                             ThresholdNum, ThresholdDen)
                      EXCEPT !.kind = "timeSeriesAnomalies"]
    /\ UNCHANGED <<series, params, lifecycleVars>>

\* ForecastTrendsUseCase.execute({data, periods})
ForecastTrends ==
    /\ outcome = NoResult
    /\ outcome' = ForecastTrendsExecute(series, params.periods)
    /\ UNCHANGED <<series, params, lifecycleVars>>

(***************************************************************************)
(* MLAnalysisWorker.findCorrelations.  The rows are summarized by their    *)
(* numeric fields 1..k in the order of extractNumericFields, the number of *)
(* numeric values of each field, and the coefficient that                  *)
(* calculateCorrelation gives for each pair of fields, in hundredths.      *)
(***************************************************************************)
MaxFields == 4                \* numeric fields of the rows
MinSamples == 3               \* values1.length > 3 && values2.length > 3
SignificantPct == 50          \* Math.abs(coef) > 0.5
StrongPct == 80               \* Math.abs(coef) > 0.8
ModeratePct == 60             \* Math.abs(coef) > 0.6
TopCorrelations == 3          \* correlations.slice(0, 3)

FieldPairs(k) == {p \in (1..k) \X (1..k) : p[1] < p[2]}

\* the pair p comes before the pair q in the loops over i and j
PairBefore(p, q) == p[1] < q[1] \/ (p[1] = q[1] /\ p[2] < q[2])

\* the pairs of fields in the order in which the loops visit them
PairSeq(k) ==
    [n \in 1..Cardinality(FieldPairs(k)) |->
        CHOOSE p \in FieldPairs(k) :
            Cardinality({q \in FieldPairs(k) : PairBefore(q, p)}) = n - 1]

Strength(coef) ==
    IF Abs(coef) > StrongPct THEN "fuerte"
    ELSE IF Abs(coef) > ModeratePct THEN "moderada" ELSE "debil"

\* lines 268-271: the pair is pushed to `correlations`
Significant(samples, coefficient, p) ==
    /\ samples[p[1]] > MinSamples
    /\ samples[p[2]] > MinSamples
    /\ Abs(coefficient[p]) > SignificantPct

\* the pairs pushed, in the order of the loops
Pushed(samples, coefficient) ==
    LET Test(p) == Significant(samples, coefficient, p)
    IN  SelectSeq(PairSeq(Len(samples)), Test)

findCorrelations(samples, coefficient) ==
    LET correlations == Pushed(samples, coefficient)
        top == SubSeq(correlations, 1, Min(TopCorrelations, Len(correlations)))
    IN  [n \in DOMAIN top |->
            [field1 |-> top[n][1], field2 |-> top[n][2],
             coefficient |-> coefficient[top[n]],
             strength |-> Strength(coefficient[top[n]])]]

Coefficients == {30, 70, -90}

CorrelationInputs ==
    UNION {[samples : [1..k -> {MinSamples, MinSamples + 1}],
            coefficient : [FieldPairs(k) -> Coefficients]] : k \in 0..MaxFields}

CorrelationsInit ==
    /\ LifecycleInit
    /\ series = <<>>
    /\ params \in CorrelationInputs
    /\ outcome = NoResult

\* findCorrelations(data)
FindCorrelations ==
    /\ outcome = NoResult
    /\ outcome' = [kind |-> "correlations",
                   correlations |-> findCorrelations(params.samples, params.coefficient)]
    /\ UNCHANGED <<series, params, lifecycleVars>>

(***************************************************************************)
(* Specifications.  Spec: submission, the two workers, the clock and the   *)
(* sweep.  SpecAnalyze adds the synchronous analyze-data use case to the   *)
(* render worker; SpecDownload adds the download use case to it, called by *)
(* one caller at a time, SpecConcurrentDownloads by two.                   *)
(***************************************************************************)
Next ==
    \/ Tick
    \/ TickRetention
    \/ SubmitSave
    \/ SubmitEnqueueRender
    \/ SubmitEnqueueML
    \/ RenderStart
    \/ RenderMarkProcessing
    \/ RenderGenerate
    \/ RenderPost
    \/ MLStart
    \/ MLMarkAnalyzing
    \/ MLAnalyze
    \/ MLDone
    \/ Sweep

Spec == Init /\ [][Next]_vars

NextAnalyze ==
    \/ SubmitSave
    \/ SubmitEnqueueRender
    \/ SubmitEnqueueML
    \/ RenderStart
    \/ RenderMarkProcessing
    \/ RenderGenerate
    \/ RenderPost
    \/ MLStart
    \/ MLMarkAnalyzing
    \/ MLAnalyze
    \/ MLDone
    \/ AnalyzeStart
    \/ AnalyzeMark
    \/ AnalyzeFinish

SpecAnalyze == Init /\ [][NextAnalyze]_vars

NextDownload ==
    \/ Tick
    \/ TickRetention
    \/ SubmitSave
    \/ SubmitEnqueueRender
    \/ SubmitEnqueueML
    \/ RenderStart
    \/ RenderMarkProcessing
    \/ RenderGenerate
    \/ RenderPost
    \/ DownloadStart("d1")
    \/ DownloadCount("d1")
    \/ Sweep

SpecDownload == Init /\ [][NextDownload]_vars

\* the same with the two callers downloading concurrently
NextConcurrentDownloads ==
    \/ Tick
    \/ TickRetention
    \/ SubmitSave
    \/ SubmitEnqueueRender
    \/ SubmitEnqueueML
    \/ RenderStart
    \/ RenderMarkProcessing
    \/ RenderGenerate
    \/ RenderPost
    \/ \E d \in Downloaders : DownloadStart(d)
    \/ \E d \in Downloaders : DownloadCount(d)
    \/ Sweep

SpecConcurrentDownloads == Init /\ [][NextConcurrentDownloads]_vars

\* submission and the two workers, with the queue handing a stalled
\* analysis job out again
NextRedelivery ==
    \/ SubmitSave
    \/ SubmitEnqueueRender
    \/ SubmitEnqueueML
    \/ RenderStart
    \/ RenderMarkProcessing
    \/ RenderGenerate
    \/ RenderPost
    \/ MLStart
    \/ MLMarkAnalyzing
    \/ MLAnalyze
    \/ MLDone
    \/ MLStalled

SpecRedelivery == Init /\ [][NextRedelivery]_vars

\* the analysis services, each called once on every input
NextServices ==
    \/ DetectAnomalies
    \/ DetectTimeSeriesAnomalies
    \/ ForecastTrends

SpecServices == ServicesInit /\ [][NextServices]_vars

\* findCorrelations, called once on every input
NextCorrelations == FindCorrelations

SpecCorrelations == CorrelationsInit /\ [][NextCorrelations]_vars

(***************************************************************************)
(* Properties.                                                             *)
(***************************************************************************)
ArtifactPresent(r) ==
    Present(r.filePath) \/ Present(r.fileSize) \/ Present(r.downloadUrl)

ArtifactSet(r) ==
    Present(r.filePath) /\ Present(r.fileSize) /\ Present(r.downloadUrl)

InsightsOf(r) == IF Present(r.aiInsights) THEN Val(r.aiInsights) ELSE <<>>

IsPrefix(s, t) == Len(s) <= Len(t) /\ SubSeq(t, 1, Len(s)) = s

\* the stored report is there before and after the step
Kept == Stored(db, RID) /\ Stored(db', RID)

\* a handler's Report object survives the step (it is neither loaded nor dropped)
SameObject(r1, r2) == r1.status # "NONE" /\ r2.status # "NONE"

\* a Report whose status is terminal keeps its status in the step
TerminalKept(r1, r2) == r1.status \in Terminal => r2.status = r1.status

\* C1: once the status of a Report is COMPLETED or FAILED no transition
\* operation changes it, in the handlers' Report objects and in the stored
\* document; in particular no FAILED report becomes COMPLETED.
C1_TerminalStatusIsFinal ==
    [][ /\ SameObject(rReport, rReport') => TerminalKept(rReport, rReport')
        /\ SameObject(mReport, mReport') => TerminalKept(mReport, mReport')
        /\ Kept => TerminalKept(db[RID], db'[RID]) ]_vars

\* C2: the artifact fields and the error field are never both present, in
\* the stored document and in the Report of either worker.
C2_ArtifactErrorExclusive ==
    /\ Stored(db, RID) => ~(ArtifactPresent(db[RID]) /\ Present(db[RID].error))
    /\ ~(ArtifactPresent(rReport) /\ Present(rReport.error))
    /\ ~(ArtifactPresent(mReport) /\ Present(mReport.error))

\* C3: in the stored document the artifact is present only if the status is
\* COMPLETED and the error only if it is FAILED.
C3_FieldsMatchStatus ==
    Stored(db, RID) =>
        /\ ArtifactPresent(db[RID]) => db[RID].status = "COMPLETED"
        /\ Present(db[RID].error) => db[RID].status = "FAILED"

JobOver(job) == job.state \in {"completed", "failed"}

\* C4: with an analysis job enqueued and the render job completed, once both
\* jobs are over the stored report is COMPLETED with its artifact.
C4_RenderedStaysCompleted ==
    (renderJob.state = "completed" /\ JobOver(mlJob) /\ Stored(db, RID)) =>
        (db[RID].status = "COMPLETED" /\ ArtifactSet(db[RID]))

RenderFields == {"status", "filePath", "fileSize", "downloadUrl", "completedAt", "expiresAt"}
AnalysisFields == {"dataQuality", "suggestedKPIs"}

\* the step leaves these fields of the stored document as they are
Preserved(fields) == Kept => \A f \in fields : db'[RID][f] = db[RID][f]

\* C5: a write of one worker changes no field of the stored document that
\* the worker did not itself set in its Report: a field whose stored value
\* differs from the worker's copy was persisted by the other worker after the
\* copy was read, and the write must leave it alone.
C5_NoClobber ==
    [][ /\ (RenderMarkProcessing \/ RenderGenerate \/ RenderPost) => Preserved(AnalysisFields)
        /\ MLMarkAnalyzing => Preserved(RenderFields \ {"status"})
        /\ (MLAnalyze \/ MLDone) => Preserved(RenderFields) ]_vars

\* C6: the stored insight list only grows at its end: before every step it
\* is a prefix of the list after the step.
C6_InsightsAppendOnly ==
    [][ Kept => IsPrefix(InsightsOf(db[RID]), InsightsOf(db'[RID])) ]_vars

PersistedPending == Stored(db, RID) /\ db[RID].status = "PENDING"

\* C7: after a submission whose enqueue failed no PENDING report is stored,
\* and after any submission a stored PENDING report has its render job.
C7_NoPendingWithoutJob ==
    /\ subPc = "dispatchFailed" => ~PersistedPending
    /\ (subPc \in {"done", "dispatchFailed"} /\ PersistedPending) => renderJob.state # "none"

\* the step makes the stored report FAILED or gives it an error
FailsReport ==
    Kept /\ \/ db'[RID].status = "FAILED" /\ db[RID].status # "FAILED"
            \/ Present(db'[RID].error) /\ ~Present(db[RID].error)

\* C8: no step of the analysis, in the analysis job or in the analyze-data
\* use case, makes the report FAILED or sets its error.
C8_AnalysisNeverFails ==
    [][ (MLMarkAnalyzing \/ MLAnalyze \/ MLDone \/ AnalyzeMark \/ AnalyzeFinish)
            => ~FailsReport ]_vars

\* C9: when every attempt of the render job failed in the encoder (no file
\* was ever written) and all jobs are over, the stored report is FAILED with
\* its error and without artifact.
C9_RenderFailureIsFinal ==
    (renderJob.state = "failed" /\ files = {} /\ mlJob.state \in {"none", "completed", "failed"}
        /\ Stored(db, RID)) =>
        (db[RID].status = "FAILED" /\ Present(db[RID].error) /\ ~ArtifactPresent(db[RID]))

\* C10: right after markAsCompleted the Report is COMPLETED with its
\* artifact, and expiresAt is exactly completedAt plus the retention window.
C10_ExpiresAfterRetention ==
    rPc = "completed" =>
        /\ rReport.status = "COMPLETED"
        /\ ArtifactSet(rReport)
        /\ Present(rReport.completedAt) /\ Present(rReport.expiresAt)
        /\ Val(rReport.expiresAt) = Val(rReport.completedAt) + RetentionMs

\* the request asks for the analysis: aiAnalysisEnabled is true or left out
AnalysisRequested(dto) == dto.aiAnalysisEnabled # Some(FALSE)

\* C11: a successful submission stores one report, PENDING with
\* downloadCount 0, enqueues one render job, and enqueues an analysis job
\* exactly when the analysis is requested and the record count is at least
\* the minimum; no other step of the submission touches the queues.
C11_SubmissionContract ==
    [][ /\ (subPc = "start" /\ subPc' = "saved") =>
              /\ ~Stored(db, RID) /\ DOMAIN db' = {RID}
              /\ db'[RID].status = "PENDING" /\ db'[RID].downloadCount = 0
              /\ UNCHANGED <<renderJob, mlJob>>
        /\ (subPc = "saved" /\ subPc' = "renderQueued") =>
              /\ renderJob.state = "none"
              /\ renderJob'.state = "waiting" /\ renderJob'.attemptsMade = 0
              /\ UNCHANGED <<db, mlJob>>
        /\ (subPc = "renderQueued" /\ subPc' = "done") =>
              /\ UNCHANGED <<db, renderJob>>
              /\ IF AnalysisRequested(subDto) /\ subDto.rows >= MLMinDataPoints
                 THEN mlJob.state = "none" /\ mlJob'.state = "waiting"
                 ELSE mlJob' = mlJob /\ mlJob.state = "none" ]_vars

\* a submission that returned with both jobs enqueued and the report PENDING
C11_Witness ==
    /\ subPc = "done"
    /\ Stored(db, RID) /\ db[RID].status = "PENDING" /\ db[RID].downloadCount = 0
    /\ renderJob.state = "waiting"
    /\ mlJob.state = "waiting"

\* a download of the stored report by `userId` is to be rejected: unknown
\* id, not the owner, not COMPLETED, expired, or file missing
MustReject(userId) ==
    \/ ~Stored(db, RID)
    \/ db[RID].userId # userId
    \/ db[RID].status # "COMPLETED"
    \/ Present(db[RID].expiresAt) /\ now > Val(db[RID].expiresAt)
    \/ ~Present(db[RID].filePath)
    \/ Val(db[RID].filePath) \notin files

NoDownloadActive == \A d \in Downloaders : dPc[d] = "idle"

\* C13: the stored downloadCount never decreases in a step, and whenever no
\* download is under way it equals the number of downloads that returned.
C13_DownloadCountMonotonic ==
    [][ /\ Kept => db'[RID].downloadCount >= db[RID].downloadCount
        /\ (Stored(db', RID) /\ NoDownloadActive') =>
              db'[RID].downloadCount = downloaded' ]_vars

\* handler runs of a job so far: the attempts ended and the one under way
Runs(job) == job.attemptsMade + (IF job.state = "active" THEN 1 ELSE 0)

\* a step of a job with `maxAttempts` attempts, from `job` to `next`
RetryStep(job, next, maxAttempts) ==
    /\ Runs(next) <= maxAttempts
    /\ Runs(next) # Runs(job) => job.state = "waiting" /\ Runs(next) = Runs(job) + 1
    /\ next.state \in {"waiting", "active"} => next.failedEvents = next.attemptsMade
    /\ next.state = "failed" =>
          next.attemptsMade = maxAttempts /\ next.failedEvents = maxAttempts
    /\ job.state \in {"failed", "completed"} => next = job

RoundTripFields == {"status", "aiInsights", "filePath", "fileSize", "downloadUrl", "error",
                    "downloadCount", "createdAt", "completedAt", "expiresAt"}

\* the Report loaded from the collection after the step has the fields of `r`
ReloadsAs(r) == \A f \in RoundTripFields : findById(db', RID)[f] = r[f]

\* C15: a Report that was just persisted, by save in the submission or by
\* update in the render worker, and is reloaded by id has the same status,
\* insights, artifact and error fields, downloadCount and timestamps.
C15_RoundTrip ==
    [][ /\ (subPc = "start" /\ subPc' = "saved") => ReloadsAs(subReport')
        /\ (rPc = "loaded" /\ rPc' = "generating") => ReloadsAs(rReport')
        /\ (rPc = "generating" /\ rPc' = "completed") => ReloadsAs(rReport') ]_vars

\* the indices, from 0, of the points the result flags
Flagged(res) == {res.anomalies[i].index : i \in {j \in DOMAIN res.anomalies :
                                                    res.anomalies[j].isAnomaly}}

\* C16: the z-score detection with threshold 2.5 on the series
\* [100,120,115,300,125,130] flags exactly the point at index 3 and counts
\* one anomaly.
C16_ExampleAnomaly ==
    (series = ExampleSeries /\ outcome.kind = "anomalies" /\ outcome.method = "zscore") =>
        (Flagged(outcome) = {3} /\ outcome.anomalyCount = 1)

ZeroVariance(s) == s # <<>> /\ \A i \in DOMAIN s : s[i] = s[1]

\* C17: on a non-empty series of equal values every detection method, the
\* time-aware one included, counts no anomaly and gives every point the
\* score 0.
C17_ZeroVarianceScoresZero ==
    (ZeroVariance(series) /\ outcome.kind \in {"anomalies", "timeSeriesAnomalies"}) =>
        /\ outcome.anomalyCount = 0
        /\ \A i \in DOMAIN outcome.anomalies : outcome.anomalies[i].score = "0"

StatusRank(status) ==
    CASE status = "PENDING" -> 0
      [] status = "PROCESSING" -> 1
      [] status = "ANALYZING" -> 2
      [] OTHER -> 3

\* a status that is not terminal is followed by itself, a later one, or FAILED
MovesForward(s1, s2) ==
    s1 \notin Terminal => (s2 = "FAILED" \/ StatusRank(s2) >= StatusRank(s1))

\* C19: the status of a Report only moves forward along PENDING, PROCESSING,
\* ANALYZING, COMPLETED (or to FAILED): the render job's markAsProcessing
\* changes the status only when it is PENDING, the analysis job's
\* markAsAnalyzing only when it is PENDING or PROCESSING, and no step of the
\* two jobs moves the stored report from ANALYZING back to PROCESSING.
C19_StatusMovesForward ==
    [][ /\ (RenderMarkProcessing /\ rReport.status # "PENDING")
              => rReport'.status = rReport.status
        /\ (MLMarkAnalyzing /\ mReport.status \notin {"PENDING", "PROCESSING"})
              => mReport'.status = mReport.status
        /\ Kept => MovesForward(db[RID].status, db'[RID].status) ]_vars

\* every insight of the list acc occurs in the list stored
ContainsAll(stored, acc) ==
    \A i \in DOMAIN acc : \E j \in DOMAIN stored : stored[j] = acc[i]

\* C20: when a step of the analysis job before the correlation step (step 5)
\* fails, the insights accumulated by the steps of that job that already ran
\* are in the insight list of the stored report after the job's last write.
C20_PartialInsightsPersisted ==
    [][ \A kpi \in KpiOutcomes, failAt \in 1..4 :
            (MLAnalyzeWith(kpi, failAt) /\ Stored(db', RID))
                => ContainsAll(InsightsOf(db'[RID]),
                               InsightsAfter(failAt - 1, mlJob.data, mlJob.flags, kpi)) ]_vars

\* the KPI-suggestion step (4) of the run fails and no other step does: the
\* progress update that opens it throws, or the suggestion service does
KpiStepFails(kpi, failAt) ==
    /\ mlJob.flags.kpi
    /\ failAt = 4 \/ (failAt = 0 /\ kpi = "throws")

\* C21: a failure of the KPI-suggestion step does not abort the analysis
\* job: the error is swallowed, the correlation step and the final
\* persistence run, and the stored insight list gains the insights of
\* steps 1-3 and of the correlation step.
C21_KpiFailureNotFatal ==
    [][ \A kpi \in KpiOutcomes, failAt \in 0..6 :
            (MLAnalyzeWith(kpi, failAt) /\ KpiStepFails(kpi, failAt) /\ Stored(db', RID))
                => /\ mPc' = "saved"
                   /\ InsightsOf(db'[RID]) =
                          InsightsOf(mReport)
                          \o InsightsAfter(3, mlJob.data, mlJob.flags, kpi)
                          \o Step5Insights(mlJob.data) ]_vars

\* the step of the analysis job that emits an insight
StepOf(insight) ==
    CASE insight.type = "suggestion" /\ insight.title = "Calidad de Datos Baja" -> 1
      [] insight.type = "anomaly" -> 2
      [] insight.type = "forecast" -> 3
      [] insight.type = "suggestion" /\ insight.title = "KPIs Sugeridos" -> 4
      [] insight.type = "correlation" -> 5
      [] OTHER -> 0

\* the insights of the list `all` after those of the list `old`
Appended(old, all) == SubSeq(all, Len(old) + 1, Len(all))

\* how many insights of the list come from step n
CountOf(list, n) == Cardinality({i \in DOMAIN list : StepOf(list[i]) = n})

\* C22: the insights appended by one analysis run are in the order of the
\* steps: the data-quality suggestion (iff completeness < 90), the anomaly
\* insights, the forecast insights, the one KPI-suggestion insight, the
\* correlation insights; steps 2-4 emit only when their flag is set, steps
\* 1 and 5 always run, and the data quality is on the report before any
\* other step (a run that fails in a later step has stored it).
C22_InsightsInStepOrder ==
    [][ \A kpi \in KpiOutcomes, failAt \in {0, 2, 3, 4, 5, 6} :
            (MLAnalyzeWith(kpi, failAt) /\ Stored(db', RID))
                => /\ db'[RID].dataQuality = Some(Quality(mlJob.data))
                   /\ failAt = 0 =>
                        LET app == Appended(InsightsOf(mReport), InsightsOf(db'[RID]))
                        IN  /\ IsPrefix(InsightsOf(mReport), InsightsOf(db'[RID]))
                            /\ \A i, j \in DOMAIN app :
                                  i < j => (StepOf(app[i]) # 0 /\ StepOf(app[i]) <= StepOf(app[j]))
                            /\ CountOf(app, 1) =
                                  (IF mlJob.data.completeness < LowCompleteness THEN 1 ELSE 0)
                            /\ CountOf(app, 2) =
                                  (IF mlJob.flags.anomaly THEN mlJob.data.anomalyFields ELSE 0)
                            /\ CountOf(app, 3) =
                                  (IF mlJob.flags.forecasting THEN mlJob.data.forecastFields ELSE 0)
                            /\ CountOf(app, 4) =
                                  (IF mlJob.flags.kpi /\ kpi = "kpis" THEN 1 ELSE 0)
                            /\ CountOf(app, 5) = mlJob.data.correlations ]_vars

\* a run with every step emitting has been stored
C22_Witness ==
    /\ mPc = "saved"
    /\ Stored(db, RID)
    /\ Len(InsightsOf(db[RID])) = 5
    /\ StepOf(InsightsOf(db[RID])[1]) = 1
    /\ StepOf(InsightsOf(db[RID])[5]) = 5

\* the Report holds what one successful run with this outcome of the KPI
\* service leaves on a report that had no insights
AfterOneRun(r, kpi) ==
    LET once == AddAll(ReportAfter(NewReport(r.userId, r.createdAt, r.aiAnalysisEnabled),
                                   5, mlJob.data, mlJob.flags, kpi),
                       InsightsAfter(5, mlJob.data, mlJob.flags, kpi))
    IN  /\ InsightsOf(r) = InsightsOf(once)
        /\ r.suggestedKPIs = Bson(once.suggestedKPIs)
        /\ r.dataQuality = Bson(once.dataQuality)

\* C23: a second successful run of the analysis job for the same report
\* and data appends the run's insights again: the stored insight list holds
\* the insights of the run twice, and the data quality and the KPI
\* suggestions are those stored after one run.
C23_RerunDuplicatesInsights ==
    [][ \A kpi \in KpiOutcomes :
            (MLAnalyzeWith(kpi, 0) /\ mlJob.stalledCount > 0 /\ AfterOneRun(mReport, kpi)
             /\ Stored(db', RID))
                => /\ InsightsOf(db'[RID]) =
                          InsightsAfter(5, mlJob.data, mlJob.flags, kpi)
                          \o InsightsAfter(5, mlJob.data, mlJob.flags, kpi)
                   /\ db'[RID].dataQuality = mReport.dataQuality
                   /\ db'[RID].suggestedKPIs = mReport.suggestedKPIs ]_vars

\* the second run of a job that emits five insights has been stored
C23_Witness ==
    /\ mPc = "saved"
    /\ mlJob.stalledCount = 1
    /\ Stored(db, RID)
    /\ Len(InsightsOf(db[RID])) = 10
    /\ Present(db[RID].suggestedKPIs)

\* the fields of a Report outside its metadata
EntityFields == {"status", "filePath", "fileSize", "downloadUrl", "error", "createdAt",
                 "completedAt", "expiresAt", "downloadCount"}

SameEntityFields(r1, r2) == \A f \in EntityFields : r2[f] = r1[f]

\* the Report objects of the state: those the handlers hold and the one a
\* handler would load
ReportObjects ==
    {r \in {rReport, mReport, aReport, subReport, findById(db, RID)} : r # NoReport}

MutatorInsights == {Insight("anomaly", "Anomalias Detectadas"), Insight("trend", "Tendencia")}

\* C24: addAIInsight, setDataQuality and addKPISuggestions change only the
\* metadata of a Report: applied to a Report in any status, and applied by
\* a run of the analysis job to the job's Report, they leave status, the
\* artifact fields, error, createdAt, completedAt, expiresAt and
\* downloadCount as they were.
C24_MutatorsKeepEntityFields ==
    [][ /\ \A r \in ReportObjects :
              /\ \A insight \in MutatorInsights : SameEntityFields(r, addAIInsight(r, insight))
              /\ \A data \in DataSets : SameEntityFields(r, setDataQuality(r, Quality(data)))
              /\ \A kpis \in {"kpis", <<"kpi">>} : SameEntityFields(r, addKPISuggestions(r, kpis))
        /\ (mPc = "analyzing" /\ mPc' = "saved") => SameEntityFields(mReport, mReport') ]_vars

\* the analysis job has applied the three mutators to its Report while the
\* render worker holds the Report it completed
C24_Witness ==
    /\ mPc = "saved"
    /\ Present(mReport.aiInsights)
    /\ Present(mReport.suggestedKPIs)
    /\ Present(mReport.dataQuality)
    /\ rReport.status = "COMPLETED"
    /\ Present(rReport.filePath)

\* C25: markAsFailed sets error and completedAt and no expiresAt, so a
\* stored report whose status is FAILED has no expiresAt, and the expiry
\* sweep removes only a report whose expiresAt is at or before the clock,
\* never one whose status is PENDING, PROCESSING, ANALYZING or FAILED.
C25_FailedNeverExpires ==
    [][ /\ (Stored(db', RID) /\ db'[RID].status = "FAILED")
              => (Present(db'[RID].error) /\ Present(db'[RID].completedAt)
                  /\ ~Present(db'[RID].expiresAt))
        /\ (Sweep /\ Stored(db, RID) /\ ~Stored(db', RID))
              => (/\ Present(db[RID].expiresAt)
                  /\ Val(db[RID].expiresAt) <= now
                  /\ db[RID].status = "COMPLETED") ]_vars

\* C26: once a render attempt has stored the report as COMPLETED, a failure
\* of a later step of the attempt (progress update, email, event) leaves
\* the stored status as it is: the handler applies markAsFailed to no
\* Report it has marked COMPLETED.
C26_FailureAfterCompletedKeepsStatus ==
    [][ (RenderPost /\ rReport.status = "COMPLETED" /\ Kept)
            => (db'[RID].status = db[RID].status /\ db'[RID].status # "FAILED") ]_vars

\* the row limit of a format of the enum
RowLimit(format) ==
    CASE format = "PDF" -> MaxRowsPdf
      [] format = "HTML" -> MaxRowsHtml
      [] format = "EXCEL" -> MaxRowsExcel
      [] format = "CSV" -> MaxRowsCsv
      [] format = "JSON" -> MaxRowsJson

\* the request fails validation
InvalidSubmission(dto) ==
    \/ dto.userId = ""
    \/ dto.titleLen = 0
    \/ dto.titleLen > MaxTitleLength
    \/ dto.format \notin Formats
    \/ (dto.format \in Formats /\ dto.rows > RowLimit(dto.format))

Retained == {p \in FieldPairs(Len(params.samples)) :
                Significant(params.samples, params.coefficient, p)}

\* the pairs of the result
Returned == {<<outcome.correlations[n].field1, outcome.correlations[n].field2>> :
                n \in DOMAIN outcome.correlations}

\* C28: findCorrelations returns the three retained pairs of greatest |r|
\* (all of them when three or fewer are retained), in descending order of
\* |r|: no retained pair left out has a larger |r| than a pair returned.
C28_TopThreeCorrelations ==
    outcome.kind = "correlations" =>
        /\ Returned \subseteq Retained
        /\ Len(outcome.correlations) = Min(TopCorrelations, Cardinality(Retained))
        /\ \A m, n \in DOMAIN outcome.correlations :
              m < n => Abs(outcome.correlations[m].coefficient)
                          >= Abs(outcome.correlations[n].coefficient)
        /\ \A p \in Retained \ Returned : \A q \in Returned :
              Abs(params.coefficient[p]) <= Abs(params.coefficient[q])

\* lists of KPI suggestions given to addKPISuggestions
KpiLists == {<<"ingresos">>, <<"margen", "rotacion">>}

Elements(list) == {list[n] : n \in DOMAIN list}

\* C29: KPI suggestions accumulate: after addKPISuggestions(a) followed by
\* addKPISuggestions(b) the suggestion list of the Report holds every
\* element of a and every element of b.
C29_KpiSuggestionsAccumulate ==
    \A r \in ReportObjects : \A a, b \in KpiLists :
        LET after == addKPISuggestions(addKPISuggestions(r, a), b)
        IN  /\ Present(after.suggestedKPIs)
            /\ Elements(a) \cup Elements(b) \subseteq Elements(Val(after.suggestedKPIs))

\* deleteExpired run at the clock of the state would delete the report
SweepWouldDelete == Stored(db, RID) /\ ~Stored(deleteExpired(db, now), RID)

\* C30: the expiry sweep and the download check agree on when a report is
\* expired: deleteExpired run at an instant deletes the stored report iff
\* isExpired() is true of it at that instant, so the sweep would not delete
\* a report for which canBeDownloaded() is true, the instant expiresAt
\* included.
C30_SweepAgreesWithIsExpired ==
    Stored(db, RID) =>
        /\ SweepWouldDelete <=> isExpired(findById(db, RID), now)
        /\ canBeDownloaded(findById(db, RID), now) => ~SweepWouldDelete

=============================================================================
